---- MODULE Spec2Model ----
(***************************************************************************)
(* Ledger model of the budget manager: class Category of                   *)
(* src/expense_report.py (a wallet of transaction records with the         *)
(* add_revenue / add_expense / transfer_money / get_balance /              *)
(* get_expense_total methods).                                             *)
(*                                                                         *)
(* Amounts are fixed-point integers counted in thousandths of a currency   *)
(* unit (1000 = 1.00, 10 = 0.01, 4 = 0.004), so that an amount with more   *)
(* than two decimals is representable and round(x, 2) is a real            *)
(* conversion.  All amounts drawn below are even, so no sum is ever        *)
(* exactly half way between two cents.                                     *)
(***************************************************************************)
EXTENDS Integers, Sequences, FiniteSets, TLC

VARIABLES
    wallet,     \* wallet[c]: Category._wallet of the category named c
    old,        \* the wallets as they were when the last call started
    call,       \* the last call: method, receiver, arguments and outcome
    categories, \* the keys of the _categories dict, in insertion order
    window,     \* the OperationWindow on screen and its widgets
    pc          \* the statement of transfer_money in execution

vars == <<wallet, old, call, categories, window, pc>>

\* No call starts once the wallets hold this many records together.
MaxRecords == 3

\* The Category objects that exist (names as in src/fill_data.py).
Names == {"Income", "Food", "Auto"}

\* An argument passed as transfer target that is not a Category object.
NotACategory == "None"

Targets == Names \cup {NotACategory}

\* Python values passed as `amount`: type(value) and, for numbers, the value.
IntAmounts == {[type |-> "int", val |-> v] : v \in {-1000, 0, 1000}}

FloatAmounts == {[type |-> "float", val |-> v] : v \in {4, -1000}}

StrAmounts == {[type |-> "str", val |-> 0]}

Amounts == IntAmounts \cup FloatAmounts \cup StrAmounts

Descriptions == {"Rent"}

Abs(x) == IF x < 0 THEN -x ELSE x

\* round(x, 1): the nearest multiple of 100.
Round1(x) ==
    LET q == x \div 100
        r == x % 100
    IN  IF r < 50 THEN q * 100
        ELSE IF r > 50 THEN (q + 1) * 100
        ELSE IF q % 2 = 0 THEN q * 100 ELSE (q + 1) * 100

\* round(x, 2) on thousandths: the nearest multiple of 10, ties to even.
Round2(x) ==
    LET q == x \div 10
        r == x % 10
    IN  IF r < 5 THEN q * 10
        ELSE IF r > 5 THEN (q + 1) * 10
        ELSE IF q % 2 = 0 THEN q * 10 ELSE (q + 1) * 10

\* Category.is_number
is_number(value) == value.type = "int" \/ value.type = "float"

\* isinstance(target, Category)
isinstance(target) == target # NotACategory

\* Category.get_balance: the loop over self._wallet, from balance = 0.
RECURSIVE BalanceLoop(_, _, _)
BalanceLoop(w, i, balance) ==
    IF i > Len(w) THEN balance
    ELSE BalanceLoop(w, i + 1, balance + w[i].amount)

\* get_balance with the loop started one record too late.
get_balance_skipfirst(w) == BalanceLoop(w, 2, 0)

get_balance(w) == BalanceLoop(w, 1, 0)

\* check_category_balance comparing the signed amount instead of abs(amount).
check_category_balance_signed(w, amount) ==
    IF amount.val > get_balance(w) THEN FALSE ELSE TRUE

\* check_category_balance rejecting an amount equal to the balance.
check_category_balance_strict(w, amount) ==
    IF Abs(amount.val) >= get_balance(w) THEN FALSE ELSE TRUE

\* Category.check_category_balance
check_category_balance(w, amount) ==
    IF Abs(amount.val) > get_balance(w) THEN FALSE ELSE TRUE

\* Category.get_expense_total: the loop over self.wallet, then round(total, 2).
RECURSIVE ExpenseLoop(_, _, _)
ExpenseLoop(w, i, total) ==
    IF i > Len(w) THEN total
    ELSE IF w[i]["transfer"] THEN ExpenseLoop(w, i + 1, total)
    ELSE IF w[i].amount < 0 THEN ExpenseLoop(w, i + 1, total + (w[i].amount * (-1)))
    ELSE ExpenseLoop(w, i + 1, total)

\* get_expense_total counting the transfer records as well.
RECURSIVE ExpenseLoopAll(_, _, _)
ExpenseLoopAll(w, i, total) ==
    IF i > Len(w) THEN total
    ELSE IF w[i].amount < 0 THEN ExpenseLoopAll(w, i + 1, total + (w[i].amount * (-1)))
    ELSE ExpenseLoopAll(w, i + 1, total)

get_expense_total_transfers(w) == Round2(ExpenseLoopAll(w, 1, 0))

get_expense_total(w) == Round2(ExpenseLoop(w, 1, 0))

\* The dict appended to the wallet.
Record(amount, description, transfer) ==
    [amount |-> amount, description |-> description, transfer |-> transfer]

\* Outcomes of a call: a returned value or a raised exception.
Raised == {"Exception", "TypeError"}

\* add_revenue with the type test joined by `and`: a negative number passes.
add_revenue_and(ws, self, amount, description, transfer) ==
    IF amount.type # "int" /\ amount.type # "float"
    THEN IF amount.type = "str"
         THEN [ws |-> ws, ret |-> "TypeError"]
         ELSE IF amount.val < 0
              THEN [ws |-> ws, ret |-> "Exception"]
              ELSE [ws |-> [ws EXCEPT ![self] =
                              Append(@, Record(amount.val, description, transfer))],
                    ret |-> "None"]
    ELSE [ws |-> [ws EXCEPT ![self] =
                    Append(@, Record(amount.val, description, transfer))],
          ret |-> "None"]

\* add_revenue inserting the record at the head of the wallet.
add_revenue_insert(ws, self, amount, description, transfer) ==
    IF amount.type = "str"
    THEN [ws |-> ws, ret |-> "TypeError"]
    ELSE IF amount.val < 0
    THEN [ws |-> ws, ret |-> "Exception"]
    ELSE [ws |-> [ws EXCEPT ![self] =
                    <<Record(amount.val, description, transfer)>> \o @],
          ret |-> "None"]

\* add_revenue rounding the amount to 2 decimals before it is stored.
add_revenue_round(ws, self, amount, description, transfer) ==
    IF amount.type = "str"
    THEN [ws |-> ws, ret |-> "TypeError"]
    ELSE IF amount.val < 0
    THEN [ws |-> ws, ret |-> "Exception"]
    ELSE [ws |-> [ws EXCEPT ![self] =
                    Append(@, Record(Round2(amount.val), description, transfer))],
          ret |-> "None"]

\* Category.add_revenue on the wallets ws; the result is the new wallets and
\* the outcome.  `amount < 0` on a str raises TypeError.
add_revenue(ws, self, amount, description, transfer) ==
    IF amount.type # "int" \/ amount.type # "float"
    THEN IF amount.type = "str"
         THEN [ws |-> ws, ret |-> "TypeError"]
         ELSE IF amount.val < 0
              THEN [ws |-> ws, ret |-> "Exception"]
              ELSE [ws |-> [ws EXCEPT ![self] =
                              Append(@, Record(amount.val, description, transfer))],
                    ret |-> "None"]
    ELSE [ws |-> [ws EXCEPT ![self] =
                    Append(@, Record(amount.val, description, transfer))],
          ret |-> "None"]

\* add_expense without the sign normalisation.
add_expense_nonegate(ws, self, amount, description, transfer) ==
    IF ~is_number(amount)
    THEN [ws |-> ws, ret |-> "Exception"]
    ELSE IF ~check_category_balance(ws[self], amount)
    THEN [ws |-> ws, ret |-> "False"]
    ELSE [ws |-> [ws EXCEPT ![self] =
                    Append(@, Record(amount.val, description, transfer))],
          ret |-> "True"]

\* add_expense answering False, instead of raising, when amount is no number.
add_expense_noraise(ws, self, amount, description, transfer) ==
    IF ~is_number(amount)
    THEN [ws |-> ws, ret |-> "False"]
    ELSE IF ~check_category_balance(ws[self], amount)
    THEN [ws |-> ws, ret |-> "False"]
    ELSE LET stored == IF amount.val > 0 THEN amount.val * (-1) ELSE amount.val
         IN  [ws |-> [ws EXCEPT ![self] =
                        Append(@, Record(stored, description, transfer))],
              ret |-> "True"]

\* Category.add_expense
add_expense(ws, self, amount, description, transfer) ==
    IF ~is_number(amount)
    THEN [ws |-> ws, ret |-> "Exception"]
    ELSE IF ~check_category_balance(ws[self], amount)
    THEN [ws |-> ws, ret |-> "False"]
    ELSE LET stored == IF amount.val > 0 THEN amount.val * (-1) ELSE amount.val
         IN  [ws |-> [ws EXCEPT ![self] =
                        Append(@, Record(stored, description, transfer))],
              ret |-> "True"]

\* transfer_money crediting the target whatever add_expense returned.
transfer_money_nocheck(ws, self, amount, target) ==
    IF ~is_number(amount)
    THEN [ws |-> ws, ret |-> "Exception"]
    ELSE IF ~isinstance(target)
    THEN [ws |-> ws, ret |-> "Exception"]
    ELSE LET sufficient_money ==
                 add_expense(ws, self, amount, "Send money to " \o target, TRUE)
             credit == add_revenue(sufficient_money.ws, target, amount,
                                   "Send money from " \o self, TRUE)
         IN  IF sufficient_money.ret \in Raised
             THEN sufficient_money
             ELSE IF credit.ret \in Raised
             THEN credit
             ELSE [ws |-> credit.ws, ret |-> sufficient_money.ret]

\* transfer_money naming the source in both descriptions.
transfer_money_samename(ws, self, amount, target) ==
    IF ~is_number(amount)
    THEN [ws |-> ws, ret |-> "Exception"]
    ELSE IF ~isinstance(target)
    THEN [ws |-> ws, ret |-> "Exception"]
    ELSE LET sufficient_money ==
                 add_expense(ws, self, amount, "Send money to " \o self, TRUE)
         IN  IF sufficient_money.ret \in Raised
             THEN sufficient_money
             ELSE IF sufficient_money.ret # "True"
             THEN [ws |-> sufficient_money.ws, ret |-> "False"]
             ELSE LET credit == add_revenue(sufficient_money.ws, target, amount,
                                            "Send money from " \o self, TRUE)
                  IN  IF credit.ret \in Raised
                      THEN credit
                      ELSE [ws |-> credit.ws, ret |-> "True"]

\* transfer_money crediting the target before it debits the source.
transfer_money_creditfirst(ws, self, amount, target) ==
    IF ~is_number(amount)
    THEN [ws |-> ws, ret |-> "Exception"]
    ELSE IF ~isinstance(target)
    THEN [ws |-> ws, ret |-> "Exception"]
    ELSE IF ~check_category_balance(ws[self], amount)
    THEN [ws |-> ws, ret |-> "False"]
    ELSE LET credit == add_revenue(ws, target, amount,
                                   "Send money from " \o self, TRUE)
         IN  IF credit.ret \in Raised
             THEN credit
             ELSE add_expense(credit.ws, self, amount,
                              "Send money to " \o target, TRUE)

\* Category.transfer_money
transfer_money(ws, self, amount, target) ==
    IF ~is_number(amount)
    THEN [ws |-> ws, ret |-> "Exception"]
    ELSE IF ~isinstance(target)
    THEN [ws |-> ws, ret |-> "Exception"]
    ELSE LET sufficient_money ==
                 add_expense(ws, self, amount, "Send money to " \o target, TRUE)
         IN  IF sufficient_money.ret \in Raised
             THEN sufficient_money
             ELSE IF sufficient_money.ret # "True"
             THEN [ws |-> sufficient_money.ws, ret |-> "False"]
             ELSE LET credit == add_revenue(sufficient_money.ws, target, amount,
                                            "Send money from " \o self, TRUE)
                  IN  IF credit.ret \in Raised
                      THEN credit
                      ELSE [ws |-> credit.ws, ret |-> "True"]

RECURSIVE TotalRecords(_, _)
TotalRecords(ws, S) ==
    IF S = {} THEN 0
    ELSE LET c == CHOOSE x \in S : TRUE
         IN  Len(ws[c]) + TotalRecords(ws, S \ {c})

NoCall ==
    [op |-> "none", self |-> "", target |-> "", amount |-> [type |-> "int", val |-> 0],
     description |-> "", ret |-> "None", value |-> 0]

\* No operation window is open.
NoWindow == [operation |-> "none", result |-> "none"]

\* No transfer_money is in execution.
Idle == [at |-> "idle", sufficient_money |-> FALSE]

\* category_dict built by _createCategories from a list of Category objects.
RECURSIVE _createCategories(_)
_createCategories(list) ==
    IF list = <<>> THEN <<>>
    ELSE LET category_dict == _createCategories(SubSeq(list, 1, Len(list) - 1))
             key == list[Len(list)]
         IN  IF \E i \in 1..Len(category_dict) : category_dict[i] = key
             THEN category_dict
             ELSE Append(category_dict, key)

Init ==
    /\ wallet = [c \in Names |-> <<>>]
    /\ old = wallet
    /\ call = NoCall
    /\ categories = _createCategories(<<"Income", "Food", "Auto">>)
    /\ window = NoWindow
    /\ pc = Idle

\* c.add_revenue(a, d)
AddRevenue(c, a, d) ==
    /\ TotalRecords(wallet, DOMAIN wallet) < MaxRecords
    /\ LET r == add_revenue(wallet, c, a, d, FALSE)
       IN  /\ wallet' = r.ws
           /\ old' = wallet
           /\ call' = [op |-> "add_revenue", self |-> c, target |-> "", amount |-> a,
                       description |-> d, ret |-> r.ret, value |-> 0]
           /\ UNCHANGED <<categories, window, pc>>

\* c.add_expense(a, d)
AddExpense(c, a, d) ==
    /\ TotalRecords(wallet, DOMAIN wallet) < MaxRecords
    /\ LET r == add_expense(wallet, c, a, d, FALSE)
       IN  /\ wallet' = r.ws
           /\ old' = wallet
           /\ call' = [op |-> "add_expense", self |-> c, target |-> "", amount |-> a,
                       description |-> d, ret |-> r.ret, value |-> 0]
           /\ UNCHANGED <<categories, window, pc>>

\* c.transfer_money(a, t)
TransferMoney(c, a, t) ==
    /\ TotalRecords(wallet, DOMAIN wallet) < MaxRecords
    /\ LET r == transfer_money(wallet, c, a, t)
       IN  /\ wallet' = r.ws
           /\ old' = wallet
           /\ call' = [op |-> "transfer_money", self |-> c, target |-> t, amount |-> a,
                       description |-> "", ret |-> r.ret, value |-> 0]
           /\ UNCHANGED <<categories, window, pc>>

\* c.get_balance()
GetBalance(c) ==
    /\ wallet' = wallet
    /\ old' = wallet
    /\ call' = [op |-> "get_balance", self |-> c, target |-> "",
                amount |-> [type |-> "int", val |-> 0],
                description |-> "", ret |-> "None", value |-> get_balance(wallet[c])]
    /\ UNCHANGED <<categories, window, pc>>

\* c.get_expense_total()
GetExpenseTotal(c) ==
    /\ wallet' = wallet
    /\ old' = wallet
    /\ call' = [op |-> "get_expense_total", self |-> c, target |-> "",
                amount |-> [type |-> "int", val |-> 0],
                description |-> "", ret |-> "None", value |-> get_expense_total(wallet[c])]
    /\ UNCHANGED <<categories, window, pc>>

Next ==
    \/ \E c \in Names, a \in Amounts, d \in Descriptions : AddRevenue(c, a, d)
    \/ \E c \in Names, a \in Amounts, d \in Descriptions : AddExpense(c, a, d)
    \/ \E c \in Names, a \in Amounts, t \in Targets : TransferMoney(c, a, t)
    \/ \E c \in Names : GetBalance(c)
    \/ \E c \in Names : GetExpenseTotal(c)

Spec == Init /\ [][Next]_vars

(***************************************************************************)
(* The seed scenario of get_fill_data, lines 39-42: a category that is     *)
(* funded, sends money to an empty one, which then spends it.  The amounts *)
(* are those of the seed data: 50, 30.72 and 10.15.                        *)
(***************************************************************************)

\* No scenario call starts once the wallets hold this many records together.
ScenarioRecords == 5

ScenarioAmounts ==
    {[type |-> "int", val |-> 50000],
     [type |-> "float", val |-> 30720],
     [type |-> "float", val |-> 10150]}

\* The sending and the receiving category (food and grocery in the seed data).
ScenarioSource == "Food"

ScenarioTarget == "Auto"

\* Sender.add_revenue(a, d)
ScenarioRevenue(a, d) ==
    /\ TotalRecords(wallet, DOMAIN wallet) < ScenarioRecords
    /\ LET r == add_revenue(wallet, ScenarioSource, a, d, FALSE)
       IN  /\ wallet' = r.ws
           /\ old' = wallet
           /\ call' = [op |-> "add_revenue", self |-> ScenarioSource, target |-> "",
                       amount |-> a, description |-> d, ret |-> r.ret, value |-> 0]
    /\ UNCHANGED <<categories, window, pc>>

\* Sender.transfer_money(a, receiver)
ScenarioTransfer(a) ==
    /\ TotalRecords(wallet, DOMAIN wallet) < ScenarioRecords
    /\ LET r == transfer_money(wallet, ScenarioSource, a, ScenarioTarget)
       IN  /\ wallet' = r.ws
           /\ old' = wallet
           /\ call' = [op |-> "transfer_money", self |-> ScenarioSource,
                       target |-> ScenarioTarget, amount |-> a,
                       description |-> "", ret |-> r.ret, value |-> 0]
    /\ UNCHANGED <<categories, window, pc>>

\* Receiver.add_expense(a, d)
ScenarioExpense(a, d) ==
    /\ TotalRecords(wallet, DOMAIN wallet) < ScenarioRecords
    /\ LET r == add_expense(wallet, ScenarioTarget, a, d, FALSE)
       IN  /\ wallet' = r.ws
           /\ old' = wallet
           /\ call' = [op |-> "add_expense", self |-> ScenarioTarget, target |-> "",
                       amount |-> a, description |-> d, ret |-> r.ret, value |-> 0]
    /\ UNCHANGED <<categories, window, pc>>

ScenarioNext ==
    \/ \E a \in ScenarioAmounts, d \in Descriptions : ScenarioRevenue(a, d)
    \/ \E a \in ScenarioAmounts : ScenarioTransfer(a)
    \/ \E a \in ScenarioAmounts, d \in Descriptions : ScenarioExpense(a, d)
    \/ GetBalance(ScenarioTarget)
    \/ GetExpenseTotal(ScenarioTarget)

SpecScenario == Init /\ [][ScenarioNext]_vars

(***************************************************************************)
(* The category registry: the _categories dict of the windows, filled by   *)
(* _createCategories and extended by OperationWindow._add_category.  Names *)
(* are ASCII strings; str.lower and str.title are given by their values on *)
(* the names that occur.                                                   *)
(***************************************************************************)

\* The names typed for a new category.
NameInputs == {"food", "Food", "ss", "ß"}

\* str.lower
lower(str) ==
    CASE str \in {"food", "FOOD", "Food"} -> "food"
      [] str \in {"ss", "Ss"} -> "ss"
      [] str = "ß" -> "ß"
      [] str \in {"income", "Income"} -> "income"
      [] str \in {"auto", "Auto"} -> "auto"
      [] OTHER -> str

\* str.title
title(str) ==
    CASE str \in {"food", "FOOD", "Food"} -> "Food"
      [] str \in {"ss", "Ss", "ß"} -> "Ss"
      [] str \in {"income", "Income"} -> "Income"
      [] str \in {"auto", "Auto"} -> "Auto"
      [] OTHER -> str

\* dict[key] = Category(key): a new key goes to the end of the dict, an
\* existing key keeps its place and gets the new, empty Category.
SetItem(cats, ws, key) ==
    [categories |-> IF \E i \in 1..Len(cats) : cats[i] = key
                    THEN cats ELSE Append(cats, key),
     ws |-> [k \in DOMAIN ws \cup {key} |-> IF k = key THEN <<>> ELSE ws[k]]]

\* _add_category storing the name as typed.
_add_category_rawkey(cats, ws, category_name) ==
    IF \E i \in 1..Len(cats) : lower(cats[i]) = lower(category_name)
    THEN [categories |-> cats, ws |-> ws, ret |-> "False"]
    ELSE [categories |-> SetItem(cats, ws, category_name).categories,
          ws |-> SetItem(cats, ws, category_name).ws,
          ret |-> "True"]

\* OperationWindow._add_category on the dict (keys cats, wallets ws).
_add_category(cats, ws, category_name) ==
    IF \E i \in 1..Len(cats) : lower(cats[i]) = lower(category_name)
    THEN [categories |-> cats, ws |-> ws, ret |-> "False"]
    ELSE [categories |-> SetItem(cats, ws, title(category_name)).categories,
          ws |-> SetItem(cats, ws, title(category_name)).ws,
          ret |-> "True"]

\* self._categories[name]
getitem(ws, name) == IF name \in DOMAIN ws THEN "Category" ELSE "KeyError"

\* The lists of Category objects the main window is built from.
SeedLists == {<<"Income">>, <<"Income", "Food">>}

\* The amounts passed to the categories of the registry.
RegistryAmounts == {a \in IntAmounts \cup StrAmounts : a.val # 0 \/ a.type = "str"}

RegistryInit ==
    /\ \E list \in SeedLists :
         /\ categories = _createCategories(list)
         /\ wallet = [c \in {list[i] : i \in 1..Len(list)} |-> <<>>]
    /\ old = wallet
    /\ call = NoCall
    /\ window = NoWindow
    /\ pc = Idle

\* _add_category(category_name)
AddCategory(category_name) ==
    /\ LET r == _add_category(categories, wallet, category_name)
       IN  /\ categories' = r.categories
           /\ wallet' = r.ws
           /\ old' = wallet
           /\ call' = [op |-> "_add_category", category_name |-> category_name,
                       ret |-> r.ret]
    /\ UNCHANGED <<window, pc>>

RegistryNext ==
    \/ \E category_name \in NameInputs : AddCategory(category_name)
    \/ \E c \in DOMAIN wallet, a \in RegistryAmounts, d \in Descriptions :
          AddRevenue(c, a, d)
    \/ \E c \in DOMAIN wallet, a \in RegistryAmounts, d \in Descriptions :
          AddExpense(c, a, d)
    \/ \E c \in DOMAIN wallet, a \in RegistryAmounts,
          t \in DOMAIN wallet \cup {NotACategory} : TransferMoney(c, a, t)

SpecRegistry == RegistryInit /\ [][RegistryNext]_vars

(***************************************************************************)
(* transfer_money statement by statement.  pc.at is the line of            *)
(* src/expense_report.py about to be executed, pc.sufficient_money the     *)
(* local variable of transfer_money, call.trace the checks and appends     *)
(* executed so far.  The program is single-threaded: no other call starts  *)
(* while one is in execution.                                              *)
(***************************************************************************)

\* The call ends: it returns or raises r.
Finish(r) ==
    /\ pc' = Idle
    /\ call' = [call EXCEPT !.ret = r]

\* The call goes on at line l, having executed the step named step.
Goto(l, step) ==
    /\ pc' = [pc EXCEPT !.at = l]
    /\ call' = [call EXCEPT !.trace = Append(@, step)]

\* c.transfer_money(a, t) is called.
CallTransfer(c, a, t) ==
    /\ pc = Idle
    /\ TotalRecords(wallet, DOMAIN wallet) < MaxRecords
    /\ pc' = [at |-> "L40", sufficient_money |-> FALSE]
    /\ old' = wallet
    /\ call' = [op |-> "transfer_money", self |-> c, target |-> t, amount |-> a,
                description |-> "", ret |-> "running", value |-> 0, trace |-> <<>>]
    /\ UNCHANGED <<wallet, categories, window>>

\* transfer_money, line 40: if not self.is_number(amount): raise
TransferIsNumber ==
    /\ pc.at = "L40"
    /\ IF ~is_number(call.amount)
       THEN Finish("Exception")
       ELSE Goto("L44", "is_number")
    /\ UNCHANGED <<wallet, old, categories, window>>

\* transfer_money, line 44: if not isinstance(target, Category): raise
TransferIsCategory ==
    /\ pc.at = "L44"
    /\ IF ~isinstance(call.target)
       THEN Finish("Exception")
       ELSE Goto("L23", "isinstance")
    /\ UNCHANGED <<wallet, old, categories, window>>

\* add_expense called at line 46; line 23: if not self.is_number(amount): raise
ExpenseIsNumber ==
    /\ pc.at = "L23"
    /\ IF ~is_number(call.amount)
       THEN Finish("Exception")
       ELSE Goto("L26", "is_number")
    /\ UNCHANGED <<wallet, old, categories, window>>

\* add_expense, line 26: if not self.check_category_balance(amount): return False
ExpenseCheckBalance ==
    /\ pc.at = "L26"
    /\ IF ~check_category_balance(wallet[call.self], call.amount)
       THEN /\ pc' = [at |-> "L48", sufficient_money |-> FALSE]
            /\ call' = [call EXCEPT !.trace = Append(@, "check_category_balance")]
       ELSE Goto("L28", "check_category_balance")
    /\ UNCHANGED <<wallet, old, categories, window>>

\* add_expense, lines 28-31: the sign is normalised, the debit appended and
\* True returned into sufficient_money.
ExpenseAppend ==
    /\ pc.at = "L28"
    /\ LET amount == IF call.amount.val > 0 THEN call.amount.val * (-1)
                     ELSE call.amount.val
       IN  wallet' = [wallet EXCEPT ![call.self] =
                        Append(@, Record(amount, "Send money to " \o call.target, TRUE))]
    /\ pc' = [at |-> "L48", sufficient_money |-> TRUE]
    /\ call' = [call EXCEPT !.trace = Append(@, "debit")]
    /\ UNCHANGED <<old, categories, window>>

\* Line 48 going on to the credit whatever add_expense returned.
TransferSufficient_ignored ==
    /\ pc.at = "L48"
    /\ Goto("L17", "sufficient_money")
    /\ UNCHANGED <<wallet, old, categories, window>>

\* transfer_money, line 48: if not sufficient_money: return False
TransferSufficient ==
    /\ pc.at = "L48"
    /\ IF ~pc.sufficient_money
       THEN Finish("False")
       ELSE Goto("L17", "sufficient_money")
    /\ UNCHANGED <<wallet, old, categories, window>>

\* add_revenue called at line 50; line 17: the test of the amount.
RevenueCheck ==
    /\ pc.at = "L17"
    /\ IF call.amount.type # "int" \/ call.amount.type # "float"
       THEN IF call.amount.type = "str"
            THEN Finish("TypeError")
            ELSE IF call.amount.val < 0
                 THEN Finish("Exception")
                 ELSE Goto("L20", "amount")
       ELSE Goto("L20", "amount")
    /\ UNCHANGED <<wallet, old, categories, window>>

\* add_revenue, line 20: the credit is appended to the target.
RevenueAppend ==
    /\ pc.at = "L20"
    /\ wallet' = [wallet EXCEPT ![call.target] =
                    Append(@, Record(call.amount.val,
                                     "Send money from " \o call.self, TRUE))]
    /\ Goto("L51", "credit")
    /\ UNCHANGED <<old, categories, window>>

\* transfer_money, line 51: return True
TransferReturn ==
    /\ pc.at = "L51"
    /\ Finish("True")
    /\ UNCHANGED <<wallet, old, categories, window>>

StepsNext ==
    \/ \E c \in Names, a \in Amounts, d \in Descriptions :
          pc = Idle /\ AddRevenue(c, a, d)
    \/ \E c \in Names, a \in Amounts, t \in Targets : CallTransfer(c, a, t)
    \/ TransferIsNumber
    \/ TransferIsCategory
    \/ ExpenseIsNumber
    \/ ExpenseCheckBalance
    \/ ExpenseAppend
    \/ TransferSufficient
    \/ RevenueCheck
    \/ RevenueAppend
    \/ TransferReturn

SpecSteps == Init /\ [][StepsNext]_vars

(***************************************************************************)
(* The operation windows of src/expense_operations.py.  window is the      *)
(* OperationWindow on screen: its operation, the text of its amount or     *)
(* category name input, whether its submit button is enabled, its combo    *)
(* boxes (current index, last_index and the disabled items, indices from   *)
(* 0) and the ResultWindow it shows ("none" when there is none).  After    *)
(* close() only the ResultWindow is left.  Both windows are application    *)
(* modal: while a ResultWindow is shown the user can only dismiss it.      *)
(***************************************************************************)

Operations == {"AddCategory", "AddRevenue", "AddExpense", "TransferMoney"}

\* The texts typed into an amount input.
AmountTexts == {"1", "2", "x", "²"}

\* The texts typed into the category name input.
NameTexts == {"food", "ss"}

\* str.isdigit
isdigit(text) == text \in {"1", "2", "²"}

\* float(text), in thousandths; ValueError when the text is not a number.
float(text) ==
    CASE text = "1" -> [ret |-> "None", val |-> 1000]
      [] text = "2" -> [ret |-> "None", val |-> 2000]
      [] OTHER -> [ret |-> "ValueError", val |-> 0]

\* OperationWindow._convert_float: round(float(text), 2)
_convert_float(text) ==
    IF float(text).ret = "ValueError"
    THEN [ret |-> "ValueError", amount |-> [type |-> "float", val |-> 0]]
    ELSE [ret |-> "None", amount |-> [type |-> "float", val |-> Round2(float(text).val)]]

\* filter_box.itemText(index)
itemText(cats, index) == cats[index + 1]

\* _create_combo_box: the current index of the new combo box.
_create_combo_box(cats, current_index) ==
    IF Len(cats) = 1 THEN 0 ELSE current_index

\* The textChanged handlers of _create_line_edit, run on a new text: the
\* amount inputs have needs_int, the category name input has not.
textChanged(w, text) ==
    [w EXCEPT !.text = text,
              !.submit_button = IF w.operation # "AddCategory"
                                THEN text # "" /\ isdigit(text)
                                ELSE text # ""]

\* _mutually_exclusive_choice(changed_filter, other_filter)
_mutually_exclusive_choice(w, changed_filter, other_filter) ==
    LET last_index == w[changed_filter].last_index
        curr_index == w[changed_filter].index
    IN  [w EXCEPT ![other_filter].disabled = (@ \ {last_index}) \cup {curr_index},
                  ![changed_filter].last_index = curr_index]

\* A window with its amount or name input empty and its submit button
\* disabled, no result shown, and the "To" combo box of _layout_add_revenue
\* and _layout_add_expense.
_layout_ui(operation, cats) ==
    [operation |-> operation, text |-> "", submit_button |-> FALSE,
     from_select |-> [index |-> 0, last_index |-> 0, disabled |-> {}],
     to_select |-> [index |-> _create_combo_box(cats, 0), last_index |-> 0,
                    disabled |-> {}],
     result |-> "none"]

\* _layout_transfer_money: the two combo boxes and the two first calls of
\* _mutually_exclusive_choice.
_layout_transfer_money(cats) ==
    LET w == [_layout_ui("TransferMoney", cats) EXCEPT
                !.from_select = [index |-> _create_combo_box(cats, 0),
                                 last_index |-> 0, disabled |-> {}],
                !.to_select = [index |-> _create_combo_box(cats, 1),
                               last_index |-> IF Len(cats) = 1 THEN 0 ELSE 1,
                               disabled |-> {}]]
    IN  _mutually_exclusive_choice(
            _mutually_exclusive_choice(w, "from_select", "to_select"),
            "to_select", "from_select")

\* _show_result: the ResultWindow is shown; on result == Result.Failure.value
\* (False) the input is cleared, which runs its textChanged handler;
\* otherwise (True, or the None of add_revenue) the window is closed.
_show_result(w, result) ==
    LET heading == IF result = "True" \/ w.operation = "AddRevenue"
                   THEN "Successfully" ELSE "Failed"
    IN  IF result = "False"
        THEN [textChanged(w, "") EXCEPT !.result = heading]
        ELSE [operation |-> "none", result |-> heading]

\* ExpenseManagerUI._operation_popup(operation): the window is created.
OperationPopup(operation) ==
    /\ window = NoWindow
    /\ window' = IF operation = "TransferMoney"
                 THEN _layout_transfer_money(categories)
                 ELSE _layout_ui(operation, categories)
    /\ UNCHANGED <<wallet, old, call, categories, pc>>

\* The user changes the text of the amount or category name input.
TypeText(text) ==
    /\ window.operation # "none"
    /\ window.result = "none"
    /\ text # window.text
    /\ IF window.operation = "AddCategory"
       THEN text \in NameTexts \cup {""}
       ELSE text \in AmountTexts \cup {""}
    /\ window' = textChanged(window, text)
    /\ UNCHANGED <<wallet, old, call, categories, pc>>

\* The user selects an enabled item of the "From" combo box.
SelectFrom(index) ==
    /\ window.operation = "TransferMoney"
    /\ window.result = "none"
    /\ index \in 0..(Len(categories) - 1)
    /\ index # window.from_select.index
    /\ index \notin window.from_select.disabled
    /\ window' = _mutually_exclusive_choice(
                     [window EXCEPT !.from_select.index = index],
                     "from_select", "to_select")
    /\ UNCHANGED <<wallet, old, call, categories, pc>>

\* The user selects an enabled item of the "To" combo box; only the transfer
\* window has a handler on it.
SelectTo(index) ==
    /\ window.operation \in {"AddRevenue", "AddExpense", "TransferMoney"}
    /\ window.result = "none"
    /\ index \in 0..(Len(categories) - 1)
    /\ index # window.to_select.index
    /\ index \notin window.to_select.disabled
    /\ window' = IF window.operation = "TransferMoney"
                 THEN _mutually_exclusive_choice(
                          [window EXCEPT !.to_select.index = index],
                          "to_select", "from_select")
                 ELSE [window EXCEPT !.to_select.index = index]
    /\ UNCHANGED <<wallet, old, call, categories, pc>>

\* The clicked handler of the enabled submit button: the operation of the
\* window is called on the selected categories and _show_result on what it
\* returned.  When _convert_float raises, the handler ends there: nothing is
\* called and no ResultWindow is created.
clicked ==
    /\ window.operation # "none"
    /\ window.result = "none"
    /\ window.submit_button
    /\ LET to_category == itemText(categories, window.to_select.index)
           from_category == itemText(categories, window.from_select.index)
           amount == _convert_float(window.text)
       IN  IF window.operation = "AddCategory"
           THEN LET r == _add_category(categories, wallet, window.text)
                IN  /\ categories' = r.categories
                    /\ wallet' = r.ws
                    /\ call' = [op |-> "_add_category",
                                category_name |-> window.text, ret |-> r.ret]
                    /\ window' = _show_result(window, r.ret)
           ELSE IF amount.ret = "ValueError"
           THEN /\ call' = [op |-> "_convert_float", self |-> "", target |-> "",
                            amount |-> amount.amount, description |-> "",
                            ret |-> "ValueError", value |-> 0]
                /\ UNCHANGED <<wallet, categories, window>>
           ELSE \E d \in Descriptions :
                LET r == CASE window.operation = "AddRevenue" ->
                                add_revenue(wallet, to_category, amount.amount, d, FALSE)
                           [] window.operation = "AddExpense" ->
                                add_expense(wallet, to_category, amount.amount, d, FALSE)
                           [] window.operation = "TransferMoney" ->
                                transfer_money(wallet, from_category, amount.amount,
                                               to_category)
                IN  /\ wallet' = r.ws
                    /\ call' = [op |-> CASE window.operation = "AddRevenue" -> "add_revenue"
                                         [] window.operation = "AddExpense" -> "add_expense"
                                         [] window.operation = "TransferMoney" -> "transfer_money",
                                self |-> IF window.operation = "TransferMoney"
                                         THEN from_category ELSE to_category,
                                target |-> IF window.operation = "TransferMoney"
                                           THEN to_category ELSE "",
                                amount |-> amount.amount,
                                description |-> IF window.operation = "TransferMoney"
                                                THEN "" ELSE d,
                                ret |-> r.ret, value |-> 0]
                    /\ window' = _show_result(window, r.ret)
                    /\ UNCHANGED categories
    /\ old' = wallet
    /\ UNCHANGED pc

\* The user clicks the submit button.
Submit ==
    /\ TotalRecords(wallet, DOMAIN wallet) < MaxRecords
    /\ clicked

\* The user clicks the cancel button: self.close
Cancel ==
    /\ window.operation # "none"
    /\ window.result = "none"
    /\ window' = NoWindow
    /\ UNCHANGED <<wallet, old, call, categories, pc>>

\* The user dismisses the ResultWindow.
DismissResult ==
    /\ window.result # "none"
    /\ window' = [window EXCEPT !.result = "none"]
    /\ UNCHANGED <<wallet, old, call, categories, pc>>

UINext ==
    \/ \E operation \in Operations : OperationPopup(operation)
    \/ \E text \in AmountTexts \cup NameTexts \cup {""} : TypeText(text)
    \/ \E index \in 0..2 : SelectFrom(index)
    \/ \E index \in 0..2 : SelectTo(index)
    \/ Submit
    \/ Cancel
    \/ DismissResult

SpecUI == RegistryInit /\ [][UINext]_vars

(***************************************************************************)
(* Startup: main() builds the main window from get_fill_data() of          *)
(* src/fill_data.py.  wallet holds the Category objects the loader         *)
(* creates, pc.statement the statement of the loader about to be executed, *)
(* categories the registry once the main window exists.  The operation     *)
(* windows are opened on that registry.                                    *)
(***************************************************************************)

\* The bound on the records added through the windows after startup.
SeedSubmits == 1

\* The Category objects created by get_fill_data, lines 15-20.
FillDataCategories == {"Income", "Food", "Clothing", "Auto", "Grocery", "Savings"}

\* The transactions of get_fill_data, lines 24-42 (amounts in thousandths).
FillDataTransactions ==
    << [op |-> "add_revenue", self |-> "Income", target |-> "",
        amount |-> [type |-> "int", val |-> 5000000], description |-> "Salary from FIT"],
       [op |-> "add_expense", self |-> "Income", target |-> "",
        amount |-> [type |-> "int", val |-> 488000], description |-> "Rent"],
       [op |-> "transfer_money", self |-> "Income", target |-> "Food",
        amount |-> [type |-> "int", val |-> 1000000], description |-> ""],
       [op |-> "transfer_money", self |-> "Income", target |-> "Clothing",
        amount |-> [type |-> "int", val |-> 500000], description |-> ""],
       [op |-> "transfer_money", self |-> "Income", target |-> "Auto",
        amount |-> [type |-> "int", val |-> 200000], description |-> ""],
       [op |-> "transfer_money", self |-> "Income", target |-> "Savings",
        amount |-> [type |-> "int", val |-> 500000], description |-> ""],
       [op |-> "add_expense", self |-> "Food", target |-> "",
        amount |-> [type |-> "float", val |-> 15890], description |-> "Mangestu Restaurant"],
       [op |-> "add_expense", self |-> "Clothing", target |-> "",
        amount |-> [type |-> "float", val |-> 25550], description |-> "H&M"],
       [op |-> "add_expense", self |-> "Clothing", target |-> "",
        amount |-> [type |-> "int", val |-> 100000], description |-> "Macy's"],
       [op |-> "add_revenue", self |-> "Auto", target |-> "",
        amount |-> [type |-> "int", val |-> 1000000], description |-> "Sold my bike"],
       [op |-> "add_expense", self |-> "Auto", target |-> "",
        amount |-> [type |-> "int", val |-> 15000], description |-> "Tyre Change"],
       [op |-> "transfer_money", self |-> "Food", target |-> "Grocery",
        amount |-> [type |-> "int", val |-> 50000], description |-> ""],
       [op |-> "add_expense", self |-> "Grocery", target |-> "",
        amount |-> [type |-> "float", val |-> 30720], description |-> "Chili's"],
       [op |-> "add_expense", self |-> "Grocery", target |-> "",
        amount |-> [type |-> "float", val |-> 10150], description |-> "Walmart"] >>

\* The list returned by get_fill_data, line 44.
get_fill_data == <<"Income", "Food", "Clothing", "Grocery">>

FillDataInit ==
    /\ wallet = [c \in FillDataCategories |-> <<>>]
    /\ old = wallet
    /\ call = NoCall
    /\ categories = <<>>
    /\ window = NoWindow
    /\ pc = [at |-> "get_fill_data", sufficient_money |-> FALSE, statement |-> 1]

\* The next transaction of get_fill_data is executed.
FillDataTransaction ==
    /\ pc.at = "get_fill_data"
    /\ pc.statement <= Len(FillDataTransactions)
    /\ LET t == FillDataTransactions[pc.statement]
           r == CASE t.op = "add_revenue" ->
                       add_revenue(wallet, t.self, t.amount, t.description, FALSE)
                  [] t.op = "add_expense" ->
                       add_expense(wallet, t.self, t.amount, t.description, FALSE)
                  [] t.op = "transfer_money" ->
                       transfer_money(wallet, t.self, t.amount, t.target)
       IN  /\ wallet' = r.ws
           /\ old' = wallet
           /\ call' = [op |-> t.op, self |-> t.self, target |-> t.target,
                       amount |-> t.amount, description |-> t.description,
                       ret |-> r.ret, value |-> 0]
           /\ pc' = [pc EXCEPT !.statement = @ + 1]
    /\ UNCHANGED <<categories, window>>

\* main, line 11: ExpenseManagerUI(fill_data.get_fill_data()) builds the
\* registry from the list the loader returns.
ExpenseManagerUI ==
    /\ pc.at = "get_fill_data"
    /\ pc.statement = Len(FillDataTransactions) + 1
    /\ categories' = _createCategories(get_fill_data)
    /\ pc' = Idle
    /\ UNCHANGED <<wallet, old, call, window>>

\* The records the loader leaves in the wallets: two for a transfer, one for
\* any other transaction (every transaction of the loader succeeds).
FillDataRecords ==
    Len(FillDataTransactions)
        + Cardinality({i \in 1..Len(FillDataTransactions) :
                          FillDataTransactions[i].op = "transfer_money"})

\* The user clicks the submit button of a window opened after startup.
FillDataSubmit ==
    /\ TotalRecords(wallet, DOMAIN wallet) < FillDataRecords + SeedSubmits
    /\ clicked

FillDataNext ==
    \/ FillDataTransaction
    \/ ExpenseManagerUI
    \/ pc = Idle /\ \E operation \in Operations : OperationPopup(operation)
    \/ pc = Idle /\ \E text \in AmountTexts \cup NameTexts \cup {""} : TypeText(text)
    \/ pc = Idle /\ \E index \in 0..4 : SelectFrom(index)
    \/ pc = Idle /\ \E index \in 0..4 : SelectTo(index)
    \/ pc = Idle /\ FillDataSubmit
    \/ pc = Idle /\ Cancel
    \/ pc = Idle /\ DismissResult

SpecFillData == FillDataInit /\ [][FillDataNext]_vars

(***************************************************************************)
(* Properties.  They are stated over the last call (call), the wallets     *)
(* before it (old) and the wallets after it (wallet).                      *)
(***************************************************************************)

\* The sum of the amounts of the records of a wallet, taken from the tail.
RECURSIVE SumAmounts(_)
SumAmounts(w) ==
    IF w = <<>> THEN 0
    ELSE SumAmounts(SubSeq(w, 1, Len(w) - 1)) + w[Len(w)].amount

\* The sum of the magnitudes of the negative records that are not transfers.
RECURSIVE SumExpenses(_)
SumExpenses(w) ==
    IF w = <<>> THEN 0
    ELSE LET last == w[Len(w)]
         IN  SumExpenses(SubSeq(w, 1, Len(w) - 1))
               + (IF last.amount < 0 /\ ~last["transfer"] THEN Abs(last.amount) ELSE 0)

\* The last call passed a number as amount.
NumericCall == call.amount.type \in {"int", "float"}

\* Every category other than those in S has the wallet it had before the call.
OthersUnchanged(S) == \A c \in DOMAIN wallet \ S : wallet[c] = old[c]

\* C1: after any sequence of add_revenue, add_expense and transfer_money
\* calls, with positive, zero or negative amounts, succeeding or failing,
\* get_balance() of every category is >= 0.
C1_BalanceNeverNegative == \A c \in Names : get_balance(wallet[c]) >= 0

\* A transfer of a negative amount that emptied its source.
C1_Witness ==
    /\ call.op = "transfer_money"
    /\ call.amount.val < 0
    /\ wallet[call.self] # old[call.self]
    /\ get_balance(wallet[call.self]) = 0

\* C2: every transfer_money call ends with the debit appended to the source
\* and the matching credit appended to the target, or with neither wallet
\* changed; a source debited without the target credited is unreachable.
C2_TransferAllOrNothing ==
    call.op = "transfer_money" =>
        \/ wallet = old
        \/ /\ call.target \in Names
           /\ \E m \in {call.amount.val, -call.amount.val} :
                \E d1, d2 \in {"Send money to " \o call.target,
                               "Send money from " \o call.self} :
                    wallet = [[old EXCEPT ![call.self] =
                                  Append(@, Record(-m, d1, TRUE))]
                                EXCEPT ![call.target] =
                                  Append(@, Record(m, d2, TRUE))]

\* C3: transfer_money with abs(amount) greater than the source's balance
\* returns False and leaves the transaction lists of source and target as
\* they were.
C3_InsufficientTransferFails ==
    ( /\ call.op = "transfer_money"
      /\ NumericCall
      /\ call.target \in Names
      /\ Abs(call.amount.val) > SumAmounts(old[call.self]) )
    => /\ call.ret = "False"
       /\ wallet[call.self] = old[call.self]
       /\ wallet[call.target] = old[call.target]

\* A transfer larger than the positive balance of its source.
C3_Witness ==
    /\ call.op = "transfer_money"
    /\ NumericCall
    /\ call.target \in Names
    /\ call.target # call.self
    /\ SumAmounts(old[call.self]) > 0
    /\ Abs(call.amount.val) > SumAmounts(old[call.self])
    /\ call.ret = "False"

\* C4: transfer_money with 0 <= amount <= source balance to a different
\* category returns True, appends one record (-amount, transfer, 'Send money
\* to <target>') to the source and one record (+amount, transfer, 'Send money
\* from <source>') to the target; the source balance decreases and the target
\* balance increases by amount.
C4_TransferSucceeds ==
    ( /\ call.op = "transfer_money"
      /\ NumericCall
      /\ call.target \in Names
      /\ call.target # call.self
      /\ call.amount.val >= 0
      /\ call.amount.val <= SumAmounts(old[call.self]) )
    => /\ call.ret = "True"
       /\ wallet[call.self] =
            Append(old[call.self],
                   Record(-call.amount.val, "Send money to " \o call.target, TRUE))
       /\ wallet[call.target] =
            Append(old[call.target],
                   Record(call.amount.val, "Send money from " \o call.self, TRUE))
       /\ get_balance(wallet[call.self]) =
            get_balance(old[call.self]) - call.amount.val
       /\ get_balance(wallet[call.target]) =
            get_balance(old[call.target]) + call.amount.val

\* A transfer of a positive amount between two categories that went through.
C4_Witness ==
    /\ call.op = "transfer_money"
    /\ call.target \in Names
    /\ call.target # call.self
    /\ call.amount.val > 0
    /\ call.amount.val <= SumAmounts(old[call.self])
    /\ call.ret = "True"

\* C5: add_expense returns False exactly when abs(amount) > balance; a
\* rejected call leaves the transaction list unchanged; the same rejected
\* call repeated is rejected again and changes nothing; a non-zero expense on
\* an empty category is rejected and the balance stays 0.
C5_Rejected ==
    ( call.op = "add_expense" /\ NumericCall ) =>
        /\ (call.ret = "False") <=>
             (Abs(call.amount.val) > SumAmounts(old[call.self]))
        /\ call.ret = "False" => wallet = old
        /\ ( old[call.self] = <<>> /\ call.amount.val # 0 ) =>
             ( call.ret = "False" /\ get_balance(wallet[call.self]) = 0 )

C5_Repeated ==
    ( /\ call.op = "add_expense"
      /\ call.ret = "False"
      /\ call'.op = "add_expense"
      /\ call'.self = call.self
      /\ call'.amount = call.amount
      /\ call'.description = call.description )
    => ( call'.ret = "False" /\ wallet' = wallet )

C5_ExpenseRejection == []C5_Rejected /\ [][C5_Repeated]_vars

\* An expense rejected on a category that holds less than the amount.
C5_Witness ==
    /\ call.op = "add_expense"
    /\ NumericCall
    /\ call.ret = "False"
    /\ old[call.self] # <<>>
    /\ Abs(call.amount.val) > SumAmounts(old[call.self])

\* C6: add_expense with abs(amount) <= balance returns True and appends one
\* record of amount -abs(amount), whatever the sign supplied; the balance
\* decreases by abs(amount).
C6_ExpenseAccepted ==
    ( /\ call.op = "add_expense"
      /\ NumericCall
      /\ Abs(call.amount.val) <= SumAmounts(old[call.self]) )
    => /\ call.ret = "True"
       /\ wallet[call.self] =
            Append(old[call.self],
                   Record(-Abs(call.amount.val), call.description, FALSE))
       /\ OthersUnchanged({call.self})
       /\ get_balance(wallet[call.self]) =
            get_balance(old[call.self]) - Abs(call.amount.val)

\* An expense equal to the whole balance, supplied as a positive amount.
C6_Witness ==
    /\ call.op = "add_expense"
    /\ call.amount.val > 0
    /\ call.amount.val = SumAmounts(old[call.self])
    /\ call.ret = "True"
    /\ get_balance(wallet[call.self]) = 0

\* C7: add_revenue with a negative int or float is rejected with an error
\* and appends nothing; no add_revenue call stores a negative record.
C7_NegativeRevenueRejected ==
    call.op = "add_revenue" =>
        /\ ( NumericCall /\ call.amount.val < 0 ) =>
             ( call.ret \in Raised /\ wallet = old )
        /\ \/ wallet = old
           \/ /\ Len(wallet[call.self]) = Len(old[call.self]) + 1
              /\ wallet[call.self][Len(wallet[call.self])].amount >= 0

\* add_revenue called with a negative number.
C7_Witness ==
    /\ call.op = "add_revenue"
    /\ NumericCall
    /\ call.amount.val < 0
    /\ call.ret = "Exception"

\* C8: add_revenue with amount >= 0 appends one record with that amount, the
\* given description and transfer flag false, and get_balance() afterwards is
\* get_balance() before plus amount.
C8_RevenueAccepted ==
    ( call.op = "add_revenue" /\ NumericCall /\ call.amount.val >= 0 )
    => /\ wallet[call.self] =
            Append(old[call.self],
                   Record(call.amount.val, call.description, FALSE))
       /\ OthersUnchanged({call.self})
       /\ get_balance(wallet[call.self]) =
            get_balance(old[call.self]) + call.amount.val

\* A positive revenue added to a category that already holds records.
C8_Witness ==
    /\ call.op = "add_revenue"
    /\ NumericCall
    /\ call.amount.val > 0
    /\ old[call.self] # <<>>
    /\ Len(wallet[call.self]) = Len(old[call.self]) + 1

\* C9: after any sequence of calls, rejected and erroring ones included,
\* get_balance() of every category is the sum of the amounts of the records
\* stored in it, and get_balance() changes no state.
C9_Sum == \A c \in Names : get_balance(wallet[c]) = SumAmounts(wallet[c])

C9_Pure ==
    call'.op = "get_balance" =>
        ( wallet' = wallet /\ call'.value = SumAmounts(wallet[call'.self]) )

C9_BalanceIsSum == []C9_Sum /\ [][C9_Pure]_vars

\* get_balance() read on a category holding a credit and a debit.
C9_Witness ==
    /\ call.op = "get_balance"
    /\ Len(wallet[call.self]) >= 2
    /\ \E i \in 1..Len(wallet[call.self]) : wallet[call.self][i].amount < 0
    /\ call.value > 0

\* The last call left get_expense_total() of every category as it was.
ExpenseTotalsKept ==
    \A c \in Names : get_expense_total(wallet[c]) = get_expense_total(old[c])

\* C10 as stated: get_expense_total() equals the sum of the absolute values
\* of the negative records that are not transfers; transfer_money and
\* add_revenue never change it.
C10_ExpenseTotalExact ==
    /\ \A c \in Names : get_expense_total(wallet[c]) = SumExpenses(wallet[c])
    /\ call.op \in {"transfer_money", "add_revenue"} => ExpenseTotalsKept

\* C10, amended: get_expense_total() equals that sum rounded to 2 decimals
\* (a multiple of 0.01 no further than 0.005 from the sum); transfer_money,
\* successful or not, and add_revenue never change it.
C10_ExpenseTotalRounded ==
    /\ \A c \in Names :
         LET total == get_expense_total(wallet[c])
         IN  /\ total % 10 = 0
             /\ 2 * Abs(total - SumExpenses(wallet[c])) <= 10
             /\ call.op = "get_expense_total" /\ call.self = c => call.value = total
    /\ call.op \in {"transfer_money", "add_revenue"} => ExpenseTotalsKept

\* A transfer out of a category that has spent a fraction of a cent: its
\* wallet holds an expense and a transfer debit, and the total is rounded.
C10_Witness ==
    /\ call.op = "transfer_money"
    /\ wallet[call.self] # old[call.self]
    /\ call.ret = "True"
    /\ \E i \in 1..Len(wallet[call.self]) :
          wallet[call.self][i].amount < 0 /\ ~wallet[call.self][i]["transfer"]
    /\ \E i \in 1..Len(wallet[call.self]) :
          wallet[call.self][i].amount < 0 /\ wallet[call.self][i]["transfer"]
    /\ get_expense_total(wallet[call.self]) # SumExpenses(wallet[call.self])

\* The records the last call appended to the wallet of category c.
Appended(c) == SubSeq(wallet[c], Len(old[c]) + 1, Len(wallet[c]))

\* C12 as stated: every stored record has an amount rounded to 2 decimal
\* places, whatever numeric amount was supplied.
C12_StoredRounded ==
    \A c \in DOMAIN wallet : \A i \in 1..Len(wallet[c]) : wallet[c][i].amount % 10 = 0

\* C12, amended: add_revenue, add_expense and transfer_money store the amount
\* as supplied, up to its sign, without rounding it; a stored amount has at
\* most 2 decimals exactly when the supplied one has.
C12_StoredAsSupplied ==
    call.op \in {"add_revenue", "add_expense", "transfer_money"} =>
        \A c \in DOMAIN wallet :
            /\ Len(wallet[c]) >= Len(old[c])
            /\ \A i \in 1..Len(Appended(c)) :
                 /\ Abs(Appended(c)[i].amount) = Abs(call.amount.val)
                 /\ (Appended(c)[i].amount % 10 = 0) <=> (call.amount.val % 10 = 0)

\* A revenue of 0.004 stored as 0.004.
C12_Witness ==
    /\ call.op = "add_revenue"
    /\ call.amount.val % 10 # 0
    /\ Len(Appended(call.self)) = 1
    /\ Appended(call.self)[1].amount % 10 # 0

\* The last call failed for want of funds.
InsufficientFunds ==
    /\ call.op \in {"add_expense", "transfer_money"}
    /\ NumericCall
    /\ call.op = "transfer_money" => call.target # NotACategory
    /\ Abs(call.amount.val) > SumAmounts(old[call.self])

\* The last call failed for another reason: an amount that is no number, a
\* negative revenue, a target that is no category, or a transfer of a
\* negative amount that the source can cover.
InvalidCall ==
    \/ call.op \in {"add_revenue", "add_expense", "transfer_money"} /\ ~NumericCall
    \/ call.op = "add_revenue" /\ NumericCall /\ call.amount.val < 0
    \/ call.op = "transfer_money" /\ NumericCall /\ call.target = NotACategory
    \/ /\ call.op = "transfer_money"
       /\ NumericCall
       /\ call.target # NotACategory
       /\ call.amount.val < 0
       /\ Abs(call.amount.val) <= SumAmounts(old[call.self])

\* C15 as stated: every failing operation reports its failure as a returned
\* value and never as a raised exception.
C15_NeverRaises == call.ret \notin Raised

\* C15, amended: insufficient funds in add_expense and transfer_money is
\* reported by the returned value False; every other failure (an amount that
\* is no number, a negative revenue, a target that is no category, a transfer
\* of a negative amount that the source can cover) is raised as an exception.
C15_FailureReports ==
    call.op \in {"add_revenue", "add_expense", "transfer_money"} =>
        /\ (call.ret = "False") <=> InsufficientFunds
        /\ (call.ret \in Raised) <=> (InvalidCall /\ ~InsufficientFunds)

\* An expense whose amount is no number, raised to the caller.
C15_Witness ==
    /\ call.op = "add_expense"
    /\ ~NumericCall
    /\ call.ret = "Exception"
    /\ wallet[call.self] # <<>>

\* C17: a transfer from a category to itself with 0 <= amount <= balance
\* succeeds, appends a transfer record of -amount followed by one of +amount
\* and leaves balance and expense total unchanged; with amount > balance it
\* fails and appends nothing.
C17_SelfTransfer ==
    ( call.op = "transfer_money" /\ NumericCall /\ call.target = call.self )
    => /\ ( call.amount.val >= 0 /\ call.amount.val <= SumAmounts(old[call.self]) )
          => /\ call.ret = "True"
             /\ Len(wallet[call.self]) = Len(old[call.self]) + 2
             /\ Appended(call.self) =
                  << Record(-call.amount.val, "Send money to " \o call.self, TRUE),
                     Record(call.amount.val, "Send money from " \o call.self, TRUE) >>
             /\ SubSeq(wallet[call.self], 1, Len(old[call.self])) = old[call.self]
             /\ get_balance(wallet[call.self]) = get_balance(old[call.self])
             /\ get_expense_total(wallet[call.self]) = get_expense_total(old[call.self])
       /\ call.amount.val > SumAmounts(old[call.self])
          => ( call.ret = "False" /\ wallet = old )

\* A category sending a positive amount to itself.
C17_Witness ==
    /\ call.op = "transfer_money"
    /\ call.target = call.self
    /\ call.amount.val > 0
    /\ call.ret = "True"
    /\ Len(wallet[call.self]) = Len(old[call.self]) + 2

\* The wallet w holds one credit, an incoming transfer of 50.00, and the two
\* accepted expenses 30.72 and 10.15.
Scenario4(w) ==
    /\ Len(w) = 3
    /\ w[1].amount = 50000 /\ w[1]["transfer"]
    /\ \A i \in {2, 3} : ~w[i]["transfer"]
    /\ <<w[2].amount, w[3].amount>> \in {<<-30720, -10150>>, <<-10150, -30720>>}

\* C11 as stated: in that category get_expense_total() is 40.87 and
\* get_balance() is 9.28.
C11_Scenario4AsStated ==
    \A c \in DOMAIN wallet :
        Scenario4(wallet[c]) =>
            /\ get_expense_total(wallet[c]) = 40870
            /\ get_balance(wallet[c]) = 9280

\* C11, amended: in that category get_expense_total() is 40.87 and
\* get_balance() is 9.13.
C11_Scenario4 ==
    \A c \in DOMAIN wallet :
        Scenario4(wallet[c]) =>
            /\ get_expense_total(wallet[c]) = 40870
            /\ get_balance(wallet[c]) = 9130
            /\ call.op = "get_balance" /\ call.self = c => call.value = 9130
            /\ call.op = "get_expense_total" /\ call.self = c => call.value = 40870

\* The second of the two expenses has just been accepted.
C11_Witness ==
    /\ call.op = "add_expense"
    /\ call.ret = "True"
    /\ call.amount.val = 10150
    /\ Scenario4(wallet[call.self])

\* str.upper, on the names that occur.
upper(str) ==
    CASE str \in {"food", "FOOD", "Food"} -> "FOOD"
      [] str \in {"ss", "Ss", "ß"} -> "SS"
      [] str \in {"income", "Income"} -> "INCOME"
      [] str \in {"auto", "Auto"} -> "AUTO"
      [] OTHER -> str

\* Two names are equal under case-insensitive comparison.
SameName(a, b) == upper(a) = upper(b)

\* The keys of the registry are the keys of the dict, each once.
RegistryKeys == {categories[i] : i \in 1..Len(categories)}

\* C13: creating a category fails, leaving the registry unchanged, exactly
\* when an existing key equals the new name under case-insensitive
\* comparison; otherwise exactly one new empty category is added; no two
\* registry keys are ever equal under case-insensitive comparison.
C13_UniqueNames ==
    /\ \A k1, k2 \in DOMAIN wallet : SameName(k1, k2) => k1 = k2
    /\ RegistryKeys = DOMAIN wallet /\ Len(categories) = Cardinality(RegistryKeys)
    /\ call.op = "_add_category" =>
         /\ (call.ret = "False") <=>
              (\E k \in DOMAIN old : SameName(k, call.category_name))
         /\ call.ret = "False" => wallet = old
         /\ call.ret # "False" =>
              /\ call.ret = "True"
              /\ \E k \in DOMAIN wallet \ DOMAIN old :
                   /\ DOMAIN wallet = DOMAIN old \cup {k}
                   /\ wallet[k] = <<>>
                   /\ get_balance(wallet[k]) = 0
              /\ \A k \in DOMAIN old : wallet[k] = old[k]

\* C14 as stated: a successful create(name) stores the new category under
\* the key name exactly as supplied, so get(name) returns it.
C14_KeyAsSupplied ==
    ( call.op = "_add_category" /\ call.ret = "True" ) =>
        /\ getitem(wallet, call.category_name) = "Category"
        /\ call.category_name \notin DOMAIN old
        /\ wallet[call.category_name] = <<>>

\* C14, amended: a successful create(name) stores the new category under the
\* key name.title(); get(name.title()) returns it, and get(name) returns it
\* only when name is already title-cased.
C14_KeyIsTitle ==
    ( call.op = "_add_category" /\ call.ret = "True" ) =>
        /\ getitem(wallet, title(call.category_name)) = "Category"
        /\ title(call.category_name) \in RegistryKeys
        /\ wallet[title(call.category_name)] = <<>>
        /\ (getitem(wallet, call.category_name) = "Category")
             <=> (call.category_name = title(call.category_name))

\* A category created from an all-lowercase name.
C14_Witness ==
    /\ call.op = "_add_category"
    /\ call.ret = "True"
    /\ call.category_name = "ss"
    /\ "Ss" \in DOMAIN wallet
    /\ "ss" \notin DOMAIN wallet

\* s is a prefix of t.
IsPrefix(s, t) == Len(s) <= Len(t) /\ SubSeq(t, 1, Len(s)) = s

\* The categories the last call names.
Named ==
    IF call.op = "transfer_money" THEN {call.self, call.target}
    ELSE IF call.op \in {"add_revenue", "add_expense"} THEN {call.self}
    ELSE {}

\* C16: every add_revenue, add_expense, transfer_money or create leaves the
\* previous transaction list of every category as a prefix of its new list,
\* leaves every category it does not name unchanged, and removes no category
\* from the registry.
C16_AppendOnly ==
    \A k \in DOMAIN old :
        /\ k \in DOMAIN wallet
        /\ k \in RegistryKeys
        /\ IsPrefix(old[k], wallet[k])
        /\ k \notin Named => wallet[k] = old[k]

\* The step named step is in the trace of the call, at position i.
At(step, i) == i \in 1..Len(call.trace) /\ call.trace[i] = step

Done(step) == \E i \in 1..Len(call.trace) : At(step, i)

\* Executed statement by statement, transfer_money ends as the method does.
StepsAgree ==
    ( call.op = "transfer_money" /\ pc = Idle ) =>
        /\ wallet = transfer_money(old, call.self, call.amount, call.target).ws
        /\ call.ret = transfer_money(old, call.self, call.amount, call.target).ret

\* The checks of transfer_money, in their order, precede the debit, and the
\* debit precedes the credit.
C18_Order ==
    call.op = "transfer_money" =>
        /\ \A i \in 1..Len(call.trace) :
             At("debit", i) =>
                 \E j, k, l \in 1..(i - 1) :
                     /\ j < k /\ k < l
                     /\ At("is_number", j)
                     /\ At("isinstance", k)
                     /\ At("check_category_balance", l)
        /\ \A i \in 1..Len(call.trace) :
             At("credit", i) => \E j \in 1..(i - 1) : At("debit", j)
        /\ wallet # old => Done("debit")
        /\ \/ wallet[call.self] = old[call.self]
           \/ wallet[call.self] = Append(old[call.self], wallet[call.self][Len(old[call.self]) + 1])
           \/ call.target = call.self /\ Done("credit")
        /\ ( call.target \in DOMAIN wallet /\ call.target # call.self
             /\ wallet[call.target] # old[call.target] ) => Done("credit")
        /\ ( pc = Idle /\ call.ret # "True" /\ ~Done("debit") ) => wallet = old

\* A wallet changes only in the two append statements: the source's in the
\* debit, before which the target is untouched, the target's in the credit.
C18_Mutation ==
    ( call'.op = "transfer_money" /\ wallet' # wallet ) =>
        \/ /\ pc.at = "L28"
           /\ wallet = old
           /\ \A c \in DOMAIN wallet \ {call.self} : wallet'[c] = wallet[c]
           /\ Len(wallet'[call.self]) = Len(wallet[call.self]) + 1
        \/ /\ pc.at = "L20"
           /\ Done("debit")
           /\ wallet[call.self] # old[call.self]
           /\ \A c \in DOMAIN wallet \ {call.target} : wallet'[c] = wallet[c]
           /\ Len(wallet'[call.target]) = Len(wallet[call.target]) + 1

\* C18: in transfer_money the amount check, the target check and the balance
\* check happen before any wallet is changed; the source debit is appended
\* before the target is touched; the target is appended to only when the
\* debit was; a failure before the debit leaves both wallets unchanged.
C18_TransferOrder == []C18_Order /\ [][C18_Mutation]_vars

\* A transfer that has debited its source and is about to credit the target.
C18_Witness ==
    /\ call.op = "transfer_money"
    /\ pc.at = "L20"
    /\ call.target # call.self
    /\ wallet[call.self] # old[call.self]
    /\ wallet[call.target] = old[call.target]

\* With two categories or more the two combo boxes of the transfer window
\* differ, each having disabled the item the other shows.
ExclusiveFromTwo ==
    ( window.operation = "TransferMoney" /\ Len(categories) >= 2 ) =>
        /\ window.from_select.index # window.to_select.index
        /\ window.to_select.disabled = {window.from_select.index}
        /\ window.from_select.disabled = {window.to_select.index}
        /\ window.from_select.last_index = window.from_select.index
        /\ window.to_select.last_index = window.to_select.index

\* C19: in the Transfer Money window, for every number of categories and
\* after any sequence of selections of enabled items, the "From" and "To"
\* combo boxes never have the same category selected, so a transfer submitted
\* from the window has a source different from its target.
C19_NeverSameCategory ==
    /\ window.operation = "TransferMoney" =>
         itemText(categories, window.from_select.index)
             # itemText(categories, window.to_select.index)
    /\ call.op = "transfer_money" => call.self # call.target

\* The state of the windows while the ResultWindow of a submit is shown: the
\* operation window is closed exactly when the operation succeeded, and open
\* with its input cleared and its submit button disabled when it failed.
C20_Shown ==
    window.result # "none" =>
        /\ call.op \in {"_add_category", "add_revenue", "add_expense", "transfer_money"}
        /\ (window.operation = "none") <=> (call.ret \in {"True", "None"})
        /\ call.ret \notin {"True", "None"} =>
             /\ call.ret = "False"
             /\ call.op # "add_revenue"
             /\ window.text = ""
             /\ ~window.submit_button

\* C20: after the user submits an operation window a result popup is shown,
\* and the window closes if and only if the operation succeeded: after a
\* failed add-category, add-expense or transfer it stays open with its input
\* cleared and Submit disabled, after every successful operation it closes.
C20_SubmitResult == []C20_Shown /\ [][Submit => window'.result # "none"]_vars

\* C21: the seed loader supplies its six categories to the registry: every
\* category the loader creates and that receives a transaction or a transfer
\* during seeding is a key of the registry built from the loader's result at
\* startup.
C21_SeedRegistered ==
    pc = Idle =>
        /\ Len(categories) >= Cardinality(FillDataCategories)
        /\ \A c \in FillDataCategories :
             wallet[c] # <<>> => c \in RegistryKeys

\* The sum of get_balance() over the categories S of ws.
RECURSIVE TotalBalance(_, _)
TotalBalance(ws, S) ==
    IF S = {} THEN 0
    ELSE LET c == CHOOSE x \in S : TRUE
         IN  get_balance(ws[c]) + TotalBalance(ws, S \ {c})

\* C22: money is conserved by transfers: for every transfer_money call between
\* two categories, successful or failed and for any numeric amount, the sum of
\* get_balance() over all categories after the call equals that sum before
\* the call; only add_revenue and add_expense change the total.
C22_MoneyConserved ==
    /\ ( call.op = "transfer_money" /\ NumericCall /\ call.target \in DOMAIN wallet )
         => TotalBalance(wallet, DOMAIN wallet) = TotalBalance(old, DOMAIN old)
    /\ TotalBalance(wallet, DOMAIN wallet) # TotalBalance(old, DOMAIN old)
         => call.op \in {"add_revenue", "add_expense"}
====
